---- MODULE Spec2Model ----
(***************************************************************************)
(* AP_Module: support for external modules.                                *)
(*                                                                         *)
(* A model of libraries/AP_Module/AP_Module.cpp: the discovery of shared   *)
(* objects in a module directory (init), the probing of one module for the *)
(* five hook symbols (module_scan), the per hook type linked lists         *)
(* (hooks[]) and the five call_hook_* dispatch operations.                 *)
(*                                                                         *)
(* Strings that the code inspects character by character (directory entry  *)
(* names, paths) are sequences of one-character strings.  Floats are exact *)
(* rationals [num, den]: the rounding of float32 arithmetic is not         *)
(* modelled, the scaling it performs is.                                   *)
(***************************************************************************)
EXTENDS Integers, Sequences, FiniteSets, TLC

VARIABLES
    fs,          \* the file system: the module directory's listing, each file's dlopen result
    pc,          \* position of the thread: "idle", "readdir" (inside init's loop), "panic"
    inits,       \* the module_path argument of every init call so far, in call order
    dir,         \* the open DIR stream of the running init: the entries readdir has yet to return
    refcount,    \* per path, the number of dlopen handles not yet dlclose'd
    heap,        \* the hook_list nodes allocated so far; a node's address is its index
    hooks,       \* AP_Module::hooks[]: per hook type the address of the head node, or NULL
    stdout,      \* the diagnostics printed so far
    scanned,     \* history: the paths the running (or last) init passed to module_scan
    skipped,     \* history: the entries of the running (or last) init whose asprintf failed
    registered,  \* history: per hook type the symbols registered, in registration order
    op,          \* the last dispatch operation since the last init: its hook type and inputs
    calls,       \* the entry-point calls that dispatch made, in call order, with their argument
    reads,       \* the reads of the clock and of the inputs that dispatch made, in order
    frame        \* two threads: the locals and the position of a module_scan and of a
                 \* dispatch loop that run statement by statement

vars == <<fs, pc, inits, dir, refcount, heap, hooks, stdout, scanned, skipped,
          registered, op, calls, reads, frame>>

----------------------------------------------------------------------------
(* Bounds of the model *)

\* the number of init calls in one behaviour
MaxInits == 2

----------------------------------------------------------------------------
(* Hook types and their symbol names *)

HOOK_SETUP_START == 0
HOOK_SETUP_COMPLETE == 1
HOOK_AHRS_UPDATE == 2
HOOK_GYRO_SAMPLE == 3
HOOK_ACCEL_SAMPLE == 4
NUM_HOOKS == 5

HookIds == 0 .. (NUM_HOOKS - 1)

hook_names ==
    [i \in HookIds |->
        CASE i = HOOK_SETUP_START -> "hook_setup_start"
          [] i = HOOK_SETUP_COMPLETE -> "hook_setup_complete"
          [] i = HOOK_AHRS_UPDATE -> "hook_AHRS_update"
          [] i = HOOK_GYRO_SAMPLE -> "hook_gyro_sample"
          [] i = HOOK_ACCEL_SAMPLE -> "hook_accel_sample"]

\* the null pointer: no node has address 0
NULL == 0

----------------------------------------------------------------------------
(* The file system *)

DotSo == <<".", "s", "o">>
Name_dot == <<".">>
Name_dotdot == <<".", ".">>
Name_a_so == <<"a", ".", "s", "o">>
Name_b_txt == <<"b", ".", "t", "x", "t">>
Name_c_SO == <<"c", ".", "S", "O">>
Name_d_so_bak == <<"d", ".", "s", "o", ".", "b", "a", "k">>
Name_e_so == <<"e", ".", "t", ".", "s", "o">>
Name_so == <<"s", "o">>

Names == {Name_dot, Name_dotdot, Name_a_so, Name_b_txt, Name_c_SO, Name_d_so_bak,
          Name_e_so, Name_so}

\* the directory that holds the modules, and a path at which there is no directory
ModuleDir == <<"m">>
MissingDir == <<"x">>
ModulePaths == {ModuleDir, MissingDir}

\* what readdir returns for the module directory, in order
Listings ==
    { <<Name_dot, Name_dotdot, Name_b_txt, Name_c_SO, Name_so, Name_d_so_bak>>,
      <<Name_a_so, Name_b_txt, Name_c_SO>>,
      <<Name_dotdot, Name_a_so, Name_d_so_bak, Name_e_so, Name_c_SO>> }

\* the symbols a shared object may export; "helper" is none of the five hook names
ExportSets ==
    { {"helper"},
      {"hook_setup_start"},
      {"hook_AHRS_update", "hook_gyro_sample", "helper"},
      {"hook_setup_start", "hook_setup_complete", "hook_AHRS_update",
       "hook_gyro_sample", "hook_accel_sample"} }

\* a file as dlopen sees it: not loadable, or a shared object with its exported symbols
NotLoadable == [loadable |-> FALSE, exports |-> {}]
Libs == {NotLoadable} \cup {[loadable |-> TRUE, exports |-> s] : s \in ExportSets}

\* the second module of a listing is one of these
AllFive == {hook_names[i] : i \in HookIds}
LaterLibs ==
    {NotLoadable, [loadable |-> TRUE, exports |-> {"hook_setup_start"}],
     [loadable |-> TRUE, exports |-> AllFive]}

\* "%s/%s" of asprintf
PathOf(module_path, d_name) == module_path \o <<"/">> \o d_name

RangeOf(s) == {s[k] : k \in 1 .. Len(s)}

\* The files a.so and e.t.so vary; c.SO is a shared object exporting all five hooks
\* under a name that is not lower case; every other entry is no shared object.
FileSystems ==
    { [listing |-> l,
       lib |-> [n \in Names |->
                    IF n = Name_a_so /\ n \in RangeOf(l) THEN a
                    ELSE IF n = Name_e_so /\ n \in RangeOf(l) THEN e
                    ELSE IF n = Name_c_SO
                         THEN [loadable |-> TRUE, exports |-> AllFive]
                    ELSE NotLoadable]] :
        l \in Listings, a \in Libs, e \in LaterLibs }

\* opendir: the stream of the directory's entries; open is FALSE for the nullptr
\* that opendir returns when the directory cannot be opened
opendir(module_path) ==
    IF module_path = ModuleDir
    THEN [open |-> TRUE, entries |-> fs.listing]
    ELSE [open |-> FALSE, entries |-> <<>>]

\* the file behind a path built by PathOf
FileAt(path) ==
    LET hit == {n \in Names : PathOf(ModuleDir, n) = path}
    IN IF hit = {} THEN NotLoadable ELSE fs.lib[CHOOSE n \in hit : TRUE]

----------------------------------------------------------------------------
(* C string functions used by init *)

\* strrchr(s, c): the position of the last c in s, or NULL
RECURSIVE strrchr(_, _)
strrchr(s, c) ==
    IF s = <<>> THEN NULL
    ELSE IF s[Len(s)] = c THEN Len(s)
    ELSE strrchr(SubSeq(s, 1, Len(s) - 1), c)

\* the string that starts at position p of s
StrAt(s, p) == SubSeq(s, p, Len(s))

\* strcmp: zero exactly when the strings are equal
strcmp(a, b) == IF a = b THEN 0 ELSE 1

\* the filter with strchr (the first dot) in the place of strrchr
RECURSIVE strchr_from(_, _, _)
strchr_from(s, c, k) ==
    IF k > Len(s) THEN NULL
    ELSE IF s[k] = c THEN k
    ELSE strchr_from(s, c, k + 1)
IsModuleName_first_dot(d_name) ==
    LET extension == strchr_from(d_name, ".", 1)
    IN ~(extension = NULL \/ strcmp(StrAt(d_name, extension), DotSo) # 0)

\* the filter with strcasecmp in the place of strcmp
Lower(c) == IF c = "S" THEN "s" ELSE IF c = "O" THEN "o" ELSE c
IsModuleName_nocase(d_name) ==
    LET extension == strrchr(d_name, ".")
        ext == StrAt(d_name, extension)
    IN ~(extension = NULL \/
         strcmp([k \in 1 .. Len(ext) |-> Lower(ext[k])], DotSo) # 0)

\* init's filter: TRUE when the entry is not skipped by the `continue` of line 87
IsModuleName(d_name) ==
    LET extension == strrchr(d_name, ".")
    IN ~(extension = NULL \/ strcmp(StrAt(d_name, extension), DotSo) # 0)

----------------------------------------------------------------------------
(* module_scan: scan a module for hook symbols *)

\* dlopen(path, RTLD_NOW): TRUE when a handle is returned, FALSE for nullptr
dlopen(path) == FileAt(path).loadable

\* the nullptr that dlsym returns for a name the module does not export
NullSymbol == [module |-> <<>>, name |-> ""]

\* dlsym probing the first hook name whatever the name asked for
dlsym_first_name(path, name) ==
    IF "hook_setup_start" \in FileAt(path).exports
    THEN [module |-> path, name |-> name]
    ELSE [module |-> <<>>, name |-> ""]

\* dlsym(m, name): the address of the symbol `name` of the module opened from path
dlsym(path, name) ==
    IF name \in FileAt(path).exports
    THEN [module |-> path, name |-> name]
    ELSE NullSymbol

\* the diagnostic of line 47
DlopenDiagnostic(path) == [fmt |-> "dlopen(%s) -> %s", arg |-> path]

\* the message of the panic of line 57
PanicMessage(i) == [fmt |-> "Failed to allocate hook for %s", arg |-> <<hook_names[i]>>]

\* Prepend that leaves the list alone when the list holds the symbol already
Prepend_dedup(hp, hk, i, s) ==
    IF \E k \in 1 .. Len(hp) : hp[k].symbol = s
    THEN [heap |-> hp, hooks |-> hk]
    ELSE [heap |-> Append(hp, [next |-> hk[i], symbol |-> s]),
          hooks |-> [hk EXCEPT ![i] = Len(hp) + 1]]

\* Prepend with `h->next = h`
Prepend_self_link(hp, hk, i, s) ==
    LET h == Len(hp) + 1
    IN [heap |-> Append(hp, [next |-> h, symbol |-> s]),
        hooks |-> [hk EXCEPT ![i] = h]]

\* Prepend that reuses the head node of a list that is not empty
Prepend_reuse_head(hp, hk, i, s) ==
    IF hk[i] = NULL
    THEN [heap |-> Append(hp, [next |-> NULL, symbol |-> s]),
          hooks |-> [hk EXCEPT ![i] = Len(hp) + 1]]
    ELSE [heap |-> [hp EXCEPT ![hk[i]].symbol = s], hooks |-> hk]

\* Prepend without `h->next = hooks[i]`: the new node ends the list
Prepend_no_link(hp, hk, i, s) ==
    LET h == Len(hp) + 1
    IN [heap |-> Append(hp, [next |-> NULL, symbol |-> s]),
        hooks |-> [hk EXCEPT ![i] = h]]

\* lines 55 and 59-61: a new node h with h->next = hooks[i], h->symbol = s
\* becomes the head of list i
Prepend(hp, hk, i, s) ==
    LET h == Len(hp) + 1
    IN [heap |-> Append(hp, [next |-> hk[i], symbol |-> s]),
        hooks |-> [hk EXCEPT ![i] = h]]

\* The loop of lines 51-64 from index i on.  st.budget is the number of
\* allocations that still succeed; the allocation after that returns nullptr and
\* the code panics.
RECURSIVE ScanHooks(_, _, _)
ScanHooks(path, i, st) ==
    IF i >= NUM_HOOKS \/ st.panic THEN st
    ELSE LET s == dlsym(path, hook_names[i])
         IN IF s = NullSymbol THEN ScanHooks(path, i + 1, st)
            ELSE IF st.budget = 0
                 THEN [st EXCEPT !.panic = TRUE,
                                 !.stdout = Append(@, PanicMessage(i))]
            ELSE LET r == Prepend(st.heap, st.hooks, i, s)
                 IN ScanHooks(path, i + 1,
                        [st EXCEPT !.heap = r.heap,
                                   !.hooks = r.hooks,
                                   !.registered[i] = Append(@, s),
                                   !.found_hook = TRUE,
                                   !.budget = @ - 1])

\* module_scan without the dlclose of line 67
CloseIfUnused_never(path, st) == st

\* module_scan with the dlclose of line 67 outside the test of found_hook
CloseIfUnused_always(path, st) ==
    IF ~st.panic
    THEN [st EXCEPT !.refcount[path] = @ - 1]
    ELSE st

\* dlclose(m) when no hook was found (lines 65-68); a panic never gets there
CloseIfUnused(path, st) ==
    IF ~st.panic /\ ~st.found_hook
    THEN [st EXCEPT !.refcount[path] = @ - 1]
    ELSE st

\* module_scan that treats a module it cannot load as fatal
module_scan_fatal(path, st) ==
    IF ~dlopen(path)
    THEN [st EXCEPT !.stdout = Append(@, DlopenDiagnostic(path)), !.panic = TRUE]
    ELSE CloseIfUnused(path,
            ScanHooks(path, 0, [st EXCEPT !.refcount[path] = @ + 1,
                                          !.found_hook = FALSE]))

\* module_scan without the printf of line 47
module_scan_silent(path, st) ==
    IF ~dlopen(path)
    THEN st
    ELSE CloseIfUnused(path,
            ScanHooks(path, 0, [st EXCEPT !.refcount[path] = @ + 1,
                                          !.found_hook = FALSE]))

\* module_scan(path) on the registry st, with `budget` allocations available
module_scan(path, st) ==
    IF ~dlopen(path)
    THEN [st EXCEPT !.stdout = Append(@, DlopenDiagnostic(path))]
    ELSE CloseIfUnused(path,
            ScanHooks(path, 0, [st EXCEPT !.refcount[path] = @ + 1,
                                          !.found_hook = FALSE]))

\* the registry as module_scan reads and writes it
Registry(budget) ==
    [refcount |-> refcount, heap |-> heap, hooks |-> hooks, stdout |-> stdout,
     registered |-> registered, found_hook |-> FALSE, panic |-> FALSE,
     budget |-> budget]

----------------------------------------------------------------------------
(* init: look for shared libraries in the given module path *)

NoOp == [hook |-> NUM_HOOKS]

\* a dispatch record is that of the registry as it stands: a new init clears it
ClearDispatch ==
    /\ op' = NoOp
    /\ calls' = <<>>
    /\ reads' = <<>>

\* lines 80-83: opendir, and the return when it fails
InitOpen(module_path) ==
    /\ pc = "idle"
    /\ Len(inits) < MaxInits
    /\ inits' = Append(inits, module_path)
    /\ scanned' = <<>>
    /\ skipped' = <<>>
    /\ LET d == opendir(module_path)
       IN IF ~d.open
          THEN pc' = "idle" /\ dir' = <<>>
          ELSE pc' = "readdir" /\ dir' = d.entries
    /\ ClearDispatch
    /\ UNCHANGED <<fs, refcount, heap, hooks, stdout, registered, frame>>

\* lines 84-95: one turn of the loop.  asprintf_ok is FALSE when asprintf
\* returns -1.
InitReaddir(asprintf_ok, budget) ==
    /\ pc = "readdir"
    /\ dir # <<>>
    /\ LET de == Head(dir)
           module_path == inits[Len(inits)]
           path == PathOf(module_path, de)
           st == module_scan(path, Registry(budget))
       IN /\ dir' = Tail(dir)
          /\ IF ~IsModuleName(de)
             THEN UNCHANGED <<pc, refcount, heap, hooks, stdout, registered,
                              scanned, skipped>>
             ELSE IF ~asprintf_ok
             THEN /\ skipped' = Append(skipped, de)
                  /\ UNCHANGED <<pc, refcount, heap, hooks, stdout, registered,
                                 scanned>>
             ELSE /\ scanned' = Append(scanned, path)
                  /\ refcount' = st.refcount
                  /\ heap' = st.heap
                  /\ hooks' = st.hooks
                  /\ stdout' = st.stdout
                  /\ registered' = st.registered
                  /\ pc' = IF st.panic THEN "panic" ELSE "readdir"
                  /\ UNCHANGED skipped
    /\ UNCHANGED <<fs, inits, op, calls, reads, frame>>

\* lines 84 and 96: readdir returns nullptr, closedir, return
InitClose ==
    /\ pc = "readdir"
    /\ dir = <<>>
    /\ pc' = "idle"
    /\ UNCHANGED <<fs, inits, dir, refcount, heap, hooks, stdout, scanned, skipped,
                   registered, op, calls, reads, frame>>

----------------------------------------------------------------------------
(* Values passed between the host and the hooks *)

\* a float: the exact rational num/den
F(n) == [num |-> n, den |-> 1]
FloatMul(a, b) == [num |-> a.num * b.num, den |-> a.den * b.den]

\* the literal 0.01f
Literal_0_01f == [num |-> 1, den |-> 100]

\* the altitude copied in centimetres
AltitudeMetres_unscaled(alt) == F(alt)

\* loc.alt*0.01f: the int32 altitude is converted to float and multiplied
AltitudeMetres(alt) == FloatMul(F(alt), Literal_0_01f)

ZeroVector3 == <<F(0), F(0), F(0)>>

\* the version constants and the status values of AP_Module_Structures.h, by name
AHRS_state_version == "AHRS_state_version"
gyro_sample_version == "gyro_sample_version"
accel_sample_version == "accel_sample_version"
ZeroVersion == "0"
AHRS_STATUS_INITIALISING == "AHRS_STATUS_INITIALISING"
AHRS_STATUS_UNHEALTHY == "AHRS_STATUS_UNHEALTHY"
AHRS_STATUS_HEALTHY == "AHRS_STATUS_HEALTHY"

\* `struct AHRS_state state {}`: every member zero
ZeroOrigin ==
    [initialised |-> FALSE, latitude |-> 0, longitude |-> 0, altitude |-> F(0)]
ZeroPosition ==
    [available |-> FALSE, latitude |-> 0, longitude |-> 0, altitude |-> F(0)]
ZeroAHRSState ==
    [structure_version |-> ZeroVersion,
     time_us |-> 0,
     status |-> AHRS_STATUS_INITIALISING,
     quat |-> <<F(0), F(0), F(0), F(0)>>,
     eulers |-> ZeroVector3,
     origin |-> ZeroOrigin,
     position |-> ZeroPosition,
     relative_position |-> ZeroVector3,
     gyro_rate |-> ZeroVector3,
     accel_ef |-> ZeroVector3]

\* `struct gyro_sample state {}` and `struct accel_sample state {}`
ZeroSample ==
    [structure_version |-> ZeroVersion,
     time_us |-> 0,
     instance |-> 0,
     delta_time |-> F(0),
     vector |-> ZeroVector3]

----------------------------------------------------------------------------
(* The navigation source (AP_AHRS_NavEKF) as call_hook_AHRS_update reads it *)

\* body-to-NED rotations, named; from_rotation_matrix gives each one's quaternion
Quaternion_from_rotation_matrix(m) ==
    CASE m = "identity" -> <<F(1), F(0), F(0), F(0)>>
      [] m = "yaw_180" -> <<F(0), F(0), F(0), F(1)>>

OriginLocation == [lat |-> 473977420, lng |-> 85455940, alt |-> 48800]
CurrentLocation == [lat |-> -353632610, lng |-> 1491652300, alt |-> -1250]

\* `Location loc;` holds an indeterminate value until an accessor fills it in
IndeterminateLocation == [lat |-> 1, lng |-> 1, alt |-> 1]

\* The sources a dispatch may be given: every combination of initialised,
\* healthy, origin known and position known; the relative position is known
\* exactly when initialised and position known differ.
AhrsSources ==
    { [initialised |-> i, healthy |-> h,
       rotation_body_to_ned |-> IF h THEN "identity" ELSE "yaw_180",
       roll |-> F(1), pitch |-> F(2), yaw |-> F(3),
       have_origin |-> o, origin |-> OriginLocation,
       have_position |-> p, position |-> CurrentLocation,
       have_relative_position |-> (i # p),
       relative_position_NED |-> <<F(7), F(8), F(9)>>,
       gyro |-> <<F(11), F(12), F(13)>>,
       accel_ef |-> <<F(21), F(22), F(23)>>] :
        i \in BOOLEAN, h \in BOOLEAN, o \in BOOLEAN, p \in BOOLEAN }

\* bool get_origin(Location &): fills loc in when it returns true
get_origin(ahrs, loc) ==
    [ret |-> ahrs.have_origin, loc |-> IF ahrs.have_origin THEN ahrs.origin ELSE loc]

\* bool get_position(Location &)
get_position(ahrs, loc) ==
    [ret |-> ahrs.have_position,
     loc |-> IF ahrs.have_position THEN ahrs.position ELSE loc]

\* the inputs of the sample hooks
Instances == {0, 1}
DeltaTimes == {[num |-> 1, den |-> 1000]}
SampleVectors == {<<F(1), F(-2), F(3)>>}
\* the readings of AP_HAL::micros64 a dispatch may see
Micros == {1000, 2000}

----------------------------------------------------------------------------
(* The dispatch operations *)

\* the walk `for (h = hooks[i]; h; h = h->next)`: the symbols of the nodes met
RECURSIVE HookList(_, _)
HookList(hp, h) ==
    IF h = NULL THEN <<>>
    ELSE <<hp[h].symbol>> \o HookList(hp, hp[h].next)

\* a walk that starts at the second node
CallAll_skip_head(i, arg) ==
    LET l == HookList(heap, hooks[i])
    IN [k \in 1 .. (Len(l) - 1) |-> [fn |-> l[k + 1], arg |-> arg]]

\* fn(arg) for every node of list i, in the order of the walk
CallAll(i, arg) ==
    LET l == HookList(heap, hooks[i])
    IN [k \in 1 .. Len(l) |-> [fn |-> l[k], arg |-> arg]]

\* the status with healthy() tested before initialised()
StatusOf_healthy_first(ahrs) ==
    IF ahrs.healthy THEN AHRS_STATUS_HEALTHY
    ELSE IF ~ahrs.initialised THEN AHRS_STATUS_INITIALISING
    ELSE AHRS_STATUS_UNHEALTHY

\* lines 141-147
StatusOf(ahrs) ==
    IF ~ahrs.initialised THEN AHRS_STATUS_INITIALISING
    ELSE IF ahrs.healthy THEN AHRS_STATUS_HEALTHY
    ELSE AHRS_STATUS_UNHEALTHY

\* the accessors lines 141-147 call
StatusReads(ahrs) ==
    IF ~ahrs.initialised THEN <<"initialised">> ELSE <<"initialised", "healthy">>

\* lines 161-166, r the result of get_origin
FillOrigin(state, r) ==
    IF r.ret
    THEN [state EXCEPT !.origin = [initialised |-> TRUE,
                                   latitude |-> r.loc.lat,
                                   longitude |-> r.loc.lng,
                                   altitude |-> AltitudeMetres(r.loc.alt)]]
    ELSE state

\* lines 168-173, r the result of get_position
FillPosition(state, r) ==
    IF r.ret
    THEN [state EXCEPT !.position = [available |-> TRUE,
                                     latitude |-> r.loc.lat,
                                     longitude |-> r.loc.lng,
                                     altitude |-> AltitudeMetres(r.loc.alt)]]
    ELSE state

\* the relative position of a structure that is static: what the dispatch
\* before left in it stays when the source has none
FillRelativePosition_static(state, ahrs) ==
    IF ahrs.have_relative_position
    THEN [state EXCEPT !.relative_position = ahrs.relative_position_NED]
    ELSE IF op.hook = HOOK_AHRS_UPDATE /\ calls # <<>>
    THEN [state EXCEPT !.relative_position = calls[1].arg.relative_position]
    ELSE state

\* lines 175-180
FillRelativePosition(state, ahrs) ==
    IF ahrs.have_relative_position
    THEN [state EXCEPT !.relative_position = ahrs.relative_position_NED]
    ELSE state

\* lines 182-185
FillGyro(state, ahrs) ==
    [state EXCEPT !.gyro_rate = <<ahrs.gyro[1], ahrs.gyro[2], ahrs.gyro[3]>>]

\* lines 187-190: all three members are set from accel_ef[0]
FillAccel(state, ahrs) ==
    [state EXCEPT !.accel_ef = <<ahrs.accel_ef[1], ahrs.accel_ef[1], ahrs.accel_ef[1]>>]

\* lines 137-190: the AHRS_state structure built from the source at time now
BuildAHRSState(ahrs, now) ==
    LET s1 == [ZeroAHRSState EXCEPT !.structure_version = AHRS_state_version,
                                    !.time_us = now,
                                    !.status = StatusOf(ahrs)]
        s2 == [s1 EXCEPT !.quat =
                    Quaternion_from_rotation_matrix(ahrs.rotation_body_to_ned),
                         !.eulers = <<ahrs.roll, ahrs.pitch, ahrs.yaw>>]
        o == get_origin(ahrs, IndeterminateLocation)
        s3 == FillOrigin(s2, o)
        p == get_position(ahrs, o.loc)
        s4 == FillPosition(s3, p)
    IN FillAccel(FillGyro(FillRelativePosition(s4, ahrs), ahrs), ahrs)

\* the reads of lines 139-187, in order
AHRSReads(ahrs) ==
    <<"micros64">> \o StatusReads(ahrs) \o
    <<"get_rotation_body_to_ned", "roll", "pitch", "yaw", "get_origin",
      "get_position", "get_relative_position_NED", "get_gyro", "get_accel_ef">>

\* the sample structure without the assignment of structure_version
BuildSample_no_version(version, now, instance, dt, v) ==
    [ZeroSample EXCEPT !.time_us = now,
                       !.instance = instance,
                       !.delta_time = dt,
                       !.vector = <<v[1], v[2], v[3]>>]

\* lines 212-219 and 240-247
BuildSample(version, now, instance, dt, v) ==
    [ZeroSample EXCEPT !.structure_version = version,
                       !.time_us = now,
                       !.instance = instance,
                       !.delta_time = dt,
                       !.vector = <<v[1], v[2], v[3]>>]

\* a dispatch without the test of lines 129, 204 and 232
ShortCircuit_never(i) == FALSE

\* TRUE when the dispatch of list i returns before it builds its structure
ShortCircuit(i) == hooks[i] = NULL

DispatchFrame ==
    UNCHANGED <<fs, pc, inits, dir, refcount, heap, hooks, stdout, scanned, skipped,
                registered, frame>>

call_hook_setup_start(now) ==
    /\ pc = "idle"
    /\ op' = [hook |-> HOOK_SETUP_START]
    /\ reads' = <<"micros64">>
    /\ calls' = CallAll(HOOK_SETUP_START, now)
    /\ DispatchFrame

call_hook_setup_complete(now) ==
    /\ pc = "idle"
    /\ op' = [hook |-> HOOK_SETUP_COMPLETE]
    /\ reads' = <<"micros64">>
    /\ calls' = CallAll(HOOK_SETUP_COMPLETE, now)
    /\ DispatchFrame

call_hook_AHRS_update(ahrs) ==
    /\ pc = "idle"
    /\ op' = [hook |-> HOOK_AHRS_UPDATE, ahrs |-> ahrs]
    /\ IF ShortCircuit(HOOK_AHRS_UPDATE)
       THEN reads' = <<>> /\ calls' = <<>>
       ELSE \E now \in Micros :
                /\ reads' = AHRSReads(ahrs)
                /\ calls' = CallAll(HOOK_AHRS_UPDATE, BuildAHRSState(ahrs, now))
    /\ DispatchFrame

call_hook_gyro_sample(instance, dt, gyro) ==
    /\ pc = "idle"
    /\ op' = [hook |-> HOOK_GYRO_SAMPLE, instance |-> instance, dt |-> dt,
              vector |-> gyro]
    /\ IF ShortCircuit(HOOK_GYRO_SAMPLE)
       THEN reads' = <<>> /\ calls' = <<>>
       ELSE \E now \in Micros :
                /\ reads' = <<"micros64", "instance", "dt", "gyro">>
                /\ calls' = CallAll(HOOK_GYRO_SAMPLE,
                                BuildSample(gyro_sample_version, now, instance, dt, gyro))
    /\ DispatchFrame

call_hook_accel_sample(instance, dt, accel) ==
    /\ pc = "idle"
    /\ op' = [hook |-> HOOK_ACCEL_SAMPLE, instance |-> instance, dt |-> dt,
              vector |-> accel]
    /\ IF ShortCircuit(HOOK_ACCEL_SAMPLE)
       THEN reads' = <<>> /\ calls' = <<>>
       ELSE \E now \in Micros :
                /\ reads' = <<"micros64", "instance", "dt", "accel">>
                /\ calls' = CallAll(HOOK_ACCEL_SAMPLE,
                                BuildSample(accel_sample_version, now, instance, dt, accel))
    /\ DispatchFrame

----------------------------------------------------------------------------
(* The specification *)

AllPaths == {PathOf(ModuleDir, n) : n \in Names}

\* no module_scan and no dispatch is under way statement by statement
ReturnedFrame ==
    [scan |-> [pc |-> "returned", path |-> <<>>, i |-> NUM_HOOKS, s |-> NullSymbol,
               h |-> NULL, found_hook |-> FALSE, written |-> {}],
     disp |-> [pc |-> "returned", hook |-> NUM_HOOKS, h |-> NULL, arg |-> <<>>]]

Init ==
    /\ fs \in FileSystems
    /\ pc = "idle"
    /\ inits = <<>>
    /\ dir = <<>>
    /\ refcount = [p \in AllPaths |-> 0]
    /\ heap = <<>>
    /\ hooks = [i \in HookIds |-> NULL]
    /\ stdout = <<>>
    /\ scanned = <<>>
    /\ skipped = <<>>
    /\ registered = [i \in HookIds |-> <<>>]
    /\ op = NoOp
    /\ calls = <<>>
    /\ reads = <<>>
    /\ frame = ReturnedFrame

Next ==
    \/ \E module_path \in ModulePaths : InitOpen(module_path)
    \/ \E asprintf_ok \in BOOLEAN, budget \in 0 .. NUM_HOOKS :
            InitReaddir(asprintf_ok, budget)
    \/ InitClose
    \/ \E now \in Micros : call_hook_setup_start(now)
    \/ \E now \in Micros : call_hook_setup_complete(now)
    \/ \E ahrs \in AhrsSources : call_hook_AHRS_update(ahrs)
    \/ \E instance \in Instances, dt \in DeltaTimes, gyro \in SampleVectors :
            call_hook_gyro_sample(instance, dt, gyro)
    \/ \E instance \in Instances, dt \in DeltaTimes, accel \in SampleVectors :
            call_hook_accel_sample(instance, dt, accel)

Spec == Init /\ [][Next]_vars

----------------------------------------------------------------------------
(* One module_scan and one dispatch operation, interleaved statement by     *)
(* statement.  Every statement is one step and reads and writes memory as   *)
(* it stands at that step.                                                  *)

\* the statement of lines 55-62 that module_scan executes after stmt, publish
\* first
ScanAfter_publish_first(stmt) ==
    CASE stmt = "new" -> "publish"
      [] stmt = "publish" -> "set_next"
      [] stmt = "set_next" -> "set_symbol"
      [] stmt = "set_symbol" -> "found"

\* the statement of lines 55-62 that module_scan executes after stmt:
\* new (55), h->next = hooks[i] (59), h->symbol = s (60), hooks[i] = h (61),
\* found_hook = true (62)
ScanAfter(stmt) ==
    CASE stmt = "new" -> "set_next"
      [] stmt = "set_next" -> "set_symbol"
      [] stmt = "set_symbol" -> "publish"
      [] stmt = "publish" -> "found"

ScanFrameOnly == UNCHANGED <<fs, pc, inits, dir, refcount, heap, hooks, stdout, scanned,
                             skipped, registered, op, calls, reads>>

\* lines 45-49
ScanDlopen ==
    /\ pc = "readdir"
    /\ frame.scan.pc = "dlopen"
    /\ LET path == frame.scan.path
       IN /\ scanned' = Append(scanned, path)
          /\ IF ~dlopen(path)
             THEN /\ stdout' = Append(stdout, DlopenDiagnostic(path))
                  /\ frame' = [frame EXCEPT !.scan.pc = "returned"]
                  /\ UNCHANGED refcount
             ELSE /\ refcount' = [refcount EXCEPT ![path] = @ + 1]
                  /\ frame' = [frame EXCEPT !.scan.pc = "loop", !.scan.i = 0,
                                            !.scan.found_hook = FALSE]
                  /\ UNCHANGED stdout
    /\ UNCHANGED <<fs, pc, inits, dir, heap, hooks, skipped, registered, op, calls,
                   reads>>

\* lines 51-54: the loop test, dlsym and the continue
ScanLoop ==
    /\ pc = "readdir"
    /\ frame.scan.pc = "loop"
    /\ LET i == frame.scan.i
       IN IF i >= NUM_HOOKS
          THEN frame' = [frame EXCEPT !.scan.pc = "close"]
          ELSE LET s == dlsym(frame.scan.path, hook_names[i])
               IN IF s = NullSymbol
                  THEN frame' = [frame EXCEPT !.scan.i = i + 1]
                  ELSE frame' = [frame EXCEPT !.scan.s = s, !.scan.pc = "new"]
    /\ ScanFrameOnly

\* lines 55-58: new hook_list leaves next and symbol unwritten (the values
\* the node holds here are never read as long as `written` lacks the field);
\* ok is FALSE when new returns nullptr
ScanNew(ok) ==
    /\ pc = "readdir"
    /\ frame.scan.pc = "new"
    /\ IF ~ok
       THEN /\ stdout' = Append(stdout, PanicMessage(frame.scan.i))
            /\ pc' = "panic"
            /\ frame' = [frame EXCEPT !.scan.pc = "panic"]
            /\ UNCHANGED heap
       ELSE /\ heap' = Append(heap, [next |-> NULL, symbol |-> NullSymbol])
            /\ frame' = [frame EXCEPT !.scan.h = Len(heap) + 1,
                                      !.scan.written = {},
                                      !.scan.pc = ScanAfter("new")]
            /\ UNCHANGED <<pc, stdout>>
    /\ UNCHANGED <<fs, inits, dir, refcount, hooks, scanned, skipped, registered, op,
                   calls, reads>>

\* line 59
ScanSetNext ==
    /\ pc = "readdir"
    /\ frame.scan.pc = "set_next"
    /\ heap' = [heap EXCEPT ![frame.scan.h].next = hooks[frame.scan.i]]
    /\ frame' = [frame EXCEPT !.scan.written = @ \cup {"next"},
                              !.scan.pc = ScanAfter("set_next")]
    /\ UNCHANGED <<fs, pc, inits, dir, refcount, hooks, stdout, scanned, skipped,
                   registered, op, calls, reads>>

\* line 60
ScanSetSymbol ==
    /\ pc = "readdir"
    /\ frame.scan.pc = "set_symbol"
    /\ heap' = [heap EXCEPT ![frame.scan.h].symbol = frame.scan.s]
    /\ frame' = [frame EXCEPT !.scan.written = @ \cup {"symbol"},
                              !.scan.pc = ScanAfter("set_symbol")]
    /\ UNCHANGED <<fs, pc, inits, dir, refcount, hooks, stdout, scanned, skipped,
                   registered, op, calls, reads>>

\* line 61
ScanPublish ==
    /\ pc = "readdir"
    /\ frame.scan.pc = "publish"
    /\ hooks' = [hooks EXCEPT ![frame.scan.i] = frame.scan.h]
    /\ registered' = [registered EXCEPT ![frame.scan.i] = Append(@, frame.scan.s)]
    /\ frame' = [frame EXCEPT !.scan.pc = ScanAfter("publish")]
    /\ UNCHANGED <<fs, pc, inits, dir, refcount, heap, stdout, scanned, skipped, op,
                   calls, reads>>

\* lines 62 and 51: found_hook = true, then i++
ScanFound ==
    /\ pc = "readdir"
    /\ frame.scan.pc = "found"
    /\ frame' = [frame EXCEPT !.scan.found_hook = TRUE, !.scan.i = @ + 1,
                              !.scan.pc = "loop"]
    /\ ScanFrameOnly

\* lines 65-69
ScanClose ==
    /\ pc = "readdir"
    /\ frame.scan.pc = "close"
    /\ refcount' = IF ~frame.scan.found_hook
                   THEN [refcount EXCEPT ![frame.scan.path] = @ - 1]
                   ELSE refcount
    /\ frame' = [frame EXCEPT !.scan.pc = "returned"]
    /\ UNCHANGED <<fs, pc, inits, dir, heap, hooks, stdout, scanned, skipped,
                   registered, op, calls, reads>>

\* the field f of node h has not been written since new returned h
Unwritten(h, f) == h = frame.scan.h /\ f \notin frame.scan.written

\* the dispatch operations the second thread may run, each with its inputs
DispatchOps ==
    {[hook |-> HOOK_SETUP_START], [hook |-> HOOK_SETUP_COMPLETE]}
    \cup {[hook |-> HOOK_AHRS_UPDATE, ahrs |-> a] :
            a \in {x \in AhrsSources : /\ x.initialised /\ x.healthy
                                       /\ x.have_origin /\ x.have_position}}
    \cup {[hook |-> HOOK_GYRO_SAMPLE, instance |-> n, dt |-> dt, vector |-> v] :
            n \in Instances, dt \in DeltaTimes, v \in SampleVectors}
    \cup {[hook |-> HOOK_ACCEL_SAMPLE, instance |-> n, dt |-> dt, vector |-> v] :
            n \in Instances, dt \in DeltaTimes, v \in SampleVectors}

\* the argument the dispatch operation o hands to the entry points
ArgOf(o, now) ==
    CASE o.hook \in {HOOK_SETUP_START, HOOK_SETUP_COMPLETE} -> now
      [] o.hook = HOOK_AHRS_UPDATE -> BuildAHRSState(o.ahrs, now)
      [] o.hook = HOOK_GYRO_SAMPLE ->
            BuildSample(gyro_sample_version, now, o.instance, o.dt, o.vector)
      [] o.hook = HOOK_ACCEL_SAMPLE ->
            BuildSample(accel_sample_version, now, o.instance, o.dt, o.vector)

\* what the dispatch operation o reads to build its argument
ReadsOf(o) ==
    CASE o.hook \in {HOOK_SETUP_START, HOOK_SETUP_COMPLETE} -> <<"micros64">>
      [] o.hook = HOOK_AHRS_UPDATE -> AHRSReads(o.ahrs)
      [] o.hook = HOOK_GYRO_SAMPLE -> <<"micros64", "instance", "dt", "gyro">>
      [] o.hook = HOOK_ACCEL_SAMPLE -> <<"micros64", "instance", "dt", "accel">>

DispFrameOnly == UNCHANGED <<fs, pc, inits, dir, refcount, heap, hooks, stdout, scanned,
                             skipped, registered, op, calls, reads>>

\* the call of a dispatch operation
DispEnter(o) ==
    /\ pc = "readdir"
    /\ frame.disp.pc = "enter"
    /\ op' = o
    /\ frame' = [frame EXCEPT !.disp.hook = o.hook,
                              !.disp.pc = IF o.hook \in {HOOK_SETUP_START,
                                                         HOOK_SETUP_COMPLETE}
                                          THEN "build" ELSE "test"]
    /\ UNCHANGED <<fs, pc, inits, dir, refcount, heap, hooks, stdout, scanned, skipped,
                   registered, calls, reads>>

\* lines 129-132, 204-207, 232-235
DispTest ==
    /\ pc = "readdir"
    /\ frame.disp.pc = "test"
    /\ frame' = [frame EXCEPT !.disp.pc = IF ShortCircuit(frame.disp.hook)
                                          THEN "returned" ELSE "build"]
    /\ DispFrameOnly

\* lines 105, 117, 137-190, 209-219, 237-247: the argument, a local
DispBuild(now) ==
    /\ pc = "readdir"
    /\ frame.disp.pc = "build"
    /\ reads' = ReadsOf(op)
    /\ frame' = [frame EXCEPT !.disp.arg = ArgOf(op, now), !.disp.pc = "loop_init"]
    /\ UNCHANGED <<fs, pc, inits, dir, refcount, heap, hooks, stdout, scanned, skipped,
                   registered, op, calls>>

\* h = hooks[i] of lines 106, 118, 192, 221, 249
DispLoopInit ==
    /\ pc = "readdir"
    /\ frame.disp.pc = "loop_init"
    /\ frame' = [frame EXCEPT !.disp.h = hooks[frame.disp.hook], !.disp.pc = "loop"]
    /\ DispFrameOnly

\* the loop test and the body: fn = h->symbol; fn(arg).  Reading a field that
\* was never written has no defined outcome: "fault" stands for all of them.
DispLoop ==
    /\ pc = "readdir"
    /\ frame.disp.pc = "loop"
    /\ LET h == frame.disp.h
       IN IF h = NULL
          THEN /\ frame' = [frame EXCEPT !.disp.pc = "returned"]
               /\ UNCHANGED calls
          ELSE IF Unwritten(h, "symbol")
          THEN /\ frame' = [frame EXCEPT !.disp.pc = "fault"]
               /\ UNCHANGED calls
          ELSE /\ calls' = Append(calls, [fn |-> heap[h].symbol, arg |-> frame.disp.arg])
               /\ frame' = [frame EXCEPT !.disp.pc = "step"]
    /\ UNCHANGED <<fs, pc, inits, dir, refcount, heap, hooks, stdout, scanned, skipped,
                   registered, op, reads>>

\* h = h->next
DispStep ==
    /\ pc = "readdir"
    /\ frame.disp.pc = "step"
    /\ LET h == frame.disp.h
       IN IF Unwritten(h, "next")
          THEN frame' = [frame EXCEPT !.disp.pc = "fault"]
          ELSE frame' = [frame EXCEPT !.disp.h = heap[h].next, !.disp.pc = "loop"]
    /\ DispFrameOnly

\* the paths init builds from the listing
ListedModulePaths ==
    {PathOf(ModuleDir, fs.listing[k]) : k \in {j \in 1 .. Len(fs.listing) :
                                                IsModuleName(fs.listing[j])}}

\* the registry before any module_scan
EmptyRegistry ==
    [refcount |-> [p \in AllPaths |-> 0], heap |-> <<>>,
     hooks |-> [i \in HookIds |-> NULL], stdout |-> <<>>,
     registered |-> [i \in HookIds |-> <<>>], found_hook |-> FALSE, panic |-> FALSE,
     budget |-> NUM_HOOKS]

\* init is in its loop: it has scanned the paths `before`, and the scan of
\* `path` and a dispatch operation are about to run
InitConc ==
    /\ fs \in FileSystems
    /\ pc = "readdir"
    /\ inits = <<ModuleDir>>
    /\ dir = <<>>
    /\ skipped = <<>>
    /\ op = NoOp
    /\ calls = <<>>
    /\ reads = <<>>
    /\ \E before \in {<<>>} \cup {<<q>> : q \in ListedModulePaths},
          path \in ListedModulePaths :
        LET st == IF before = <<>> THEN EmptyRegistry
                  ELSE module_scan(before[1], EmptyRegistry)
        IN /\ refcount = st.refcount
           /\ heap = st.heap
           /\ hooks = st.hooks
           /\ stdout = st.stdout
           /\ registered = st.registered
           /\ scanned = before
           /\ frame = [ReturnedFrame EXCEPT !.scan.pc = "dlopen", !.scan.path = path,
                                            !.disp.pc = "enter"]

NextConc ==
    \/ ScanDlopen
    \/ ScanLoop
    \/ \E ok \in BOOLEAN : ScanNew(ok)
    \/ ScanSetNext
    \/ ScanSetSymbol
    \/ ScanPublish
    \/ ScanFound
    \/ ScanClose
    \/ \E o \in DispatchOps : DispEnter(o)
    \/ DispTest
    \/ \E now \in Micros : DispBuild(now)
    \/ DispLoopInit
    \/ DispLoop
    \/ DispStep

SpecConc == InitConc /\ [][NextConc]_vars

----------------------------------------------------------------------------
(* What the claims below are stated with *)

Last(s) == s[Len(s)]
Reverse(s) == [k \in 1 .. Len(s) |-> s[Len(s) + 1 - k]]

\* the name ends with the three characters ".so"
EndsWithDotSo(name) ==
    /\ Len(name) >= 3
    /\ name[Len(name) - 2] = "."
    /\ name[Len(name) - 1] = "s"
    /\ name[Len(name)] = "o"

\* the hook names the file at path exports
Recognised(path) == FileAt(path).exports \cap AllFive

\* the symbols the last dispatch called, in call order
CalledSymbols == [k \in 1 .. Len(calls) |-> calls[k].fn]

\* the position of the first call of symbol s by the last dispatch, 0 if none
FirstCall(s) ==
    IF \E k \in 1 .. Len(calls) : calls[k].fn = s
    THEN CHOOSE k \in 1 .. Len(calls) :
            calls[k].fn = s /\ \A j \in 1 .. (k - 1) : calls[j].fn # s
    ELSE 0

\* a step of init's loop that passes a path to module_scan, and that path
ScanStep == pc = "readdir" /\ Len(scanned') = Len(scanned) + 1
ScannedPath == scanned'[Len(scanned')]

\* a dispatch has run on the registry as it stands
Dispatched == op.hook \in HookIds

----------------------------------------------------------------------------
(* C1 *)

\* C1: a dispatch of hook type X calls the registrations of X in the exact
\* reverse of the order in which they were made; so when module A was scanned
\* before module B by the last init and both export X's symbol, B's entry point
\* is called before A's.
C1_ReverseOfRegistration ==
    Dispatched =>
        /\ CalledSymbols = Reverse(registered[op.hook])
        /\ \A a, b \in 1 .. Len(scanned) :
              LET X == hook_names[op.hook]
                  A == [module |-> scanned[a], name |-> X]
                  B == [module |-> scanned[b], name |-> X]
              IN (a < b /\ X \in Recognised(scanned[a]) /\ X \in Recognised(scanned[b]))
                    => (FirstCall(B) > 0 /\ FirstCall(B) < FirstCall(A))

C1_Witness ==
    /\ Dispatched
    /\ Len(calls) >= 2
    /\ Len(scanned) = 2
    /\ calls[1].fn.module = scanned[2]
    /\ calls[2].fn.module = scanned[1]

----------------------------------------------------------------------------
(* C2 *)

NoModuleEntries == \A k \in 1 .. Len(fs.listing) : ~EndsWithDotSo(fs.listing[k])

\* every init so far was given a directory that cannot be opened or that holds
\* no entry ending in ".so"
InitsFoundNoModule ==
    \A k \in 1 .. Len(inits) : inits[k] = MissingDir \/ NoModuleEntries

\* C2: as long as init has only been run on directories that cannot be opened
\* or that hold no entry whose name ends in ".so", all five hook lists are
\* empty and no dispatch operation has called an entry point.
C2_NoModulesNoCalls ==
    InitsFoundNoModule =>
        /\ \A i \in HookIds : hooks[i] = NULL
        /\ heap = <<>>
        /\ calls = <<>>

C2_Witness ==
    /\ Len(inits) = 2
    /\ inits[1] = ModuleDir
    /\ inits[2] = MissingDir
    /\ NoModuleEntries
    /\ pc = "idle"
    /\ op.hook = HOOK_GYRO_SAMPLE

----------------------------------------------------------------------------
(* C3 *)

\* a shared object that loads and exports none of the five hook symbols
ExportsNoHook(path) == FileAt(path).loadable /\ Recognised(path) = {}

\* C3: the scan of a module that loads and exports none of the five symbols
\* leaves the module unloaded and every list and node as it was; no node ever
\* refers to such a module and no dispatch ever calls into it.
C3_NoHookModuleUnloaded ==
    /\ [][(ScanStep /\ ExportsNoHook(ScannedPath)) =>
            /\ refcount'[ScannedPath] = 0
            /\ hooks' = hooks
            /\ heap' = heap]_vars
    /\ [](/\ \A k \in 1 .. Len(heap) : ~ExportsNoHook(heap[k].symbol.module)
          /\ \A k \in 1 .. Len(calls) : ~ExportsNoHook(calls[k].fn.module)
          /\ \A q \in AllPaths : ExportsNoHook(q) => refcount[q] = 0)

C3_Witness ==
    /\ pc = "idle"
    /\ Len(scanned) = 2
    /\ ExportsNoHook(scanned[1])
    /\ Dispatched
    /\ calls # <<>>

----------------------------------------------------------------------------
(* C4 *)

\* C4: a scan that returns, of a module exporting exactly the set S of hook
\* symbols, puts one new node at the head of the list of each hook type in S,
\* holding the module's symbol and with the previous list as its tail, leaves
\* every other list as it was, and allocates nothing else.
C4_ScanPrependsExactlyS ==
    [][(ScanStep /\ pc' # "panic") =>
        LET S == Recognised(ScannedPath)
        IN /\ Len(heap') = Len(heap) + Cardinality(S)
           /\ SubSeq(heap', 1, Len(heap)) = heap
           /\ \A i \in HookIds :
                IF hook_names[i] \in S
                THEN /\ hooks'[i] \in (Len(heap) + 1) .. Len(heap')
                     /\ heap'[hooks'[i]] =
                            [next |-> hooks[i],
                             symbol |-> [module |-> ScannedPath,
                                         name |-> hook_names[i]]]
                     /\ HookList(heap', hooks'[i]) =
                            <<[module |-> ScannedPath, name |-> hook_names[i]]>>
                                \o HookList(heap, hooks[i])
                ELSE /\ hooks'[i] = hooks[i]
                     /\ HookList(heap', hooks'[i]) = HookList(heap, hooks[i])]_vars

C4_Witness ==
    /\ Len(scanned) = 2
    /\ Recognised(scanned[2]) = {"hook_setup_start"}
    /\ Len(HookList(heap, hooks[HOOK_SETUP_START])) = 2
    /\ heap[hooks[HOOK_SETUP_START]].symbol.module = scanned[2]
    /\ hooks[HOOK_AHRS_UPDATE] # NULL
    /\ heap[hooks[HOOK_AHRS_UPDATE]].symbol.module = scanned[1]

----------------------------------------------------------------------------
(* C5 *)

\* C5: an AHRS-update, gyro-sample or accel-sample dispatch whose list is empty
\* calls no entry point and reads neither the clock nor any of its inputs.
C5_EmptyListShortCircuit ==
    (op.hook \in {HOOK_AHRS_UPDATE, HOOK_GYRO_SAMPLE, HOOK_ACCEL_SAMPLE}
        /\ hooks[op.hook] = NULL)
    => (calls = <<>> /\ reads = <<>>)

C5_Witness ==
    /\ op.hook = HOOK_AHRS_UPDATE
    /\ hooks[HOOK_AHRS_UPDATE] = NULL
    /\ hooks[HOOK_SETUP_START] # NULL
    /\ calls = <<>>
    /\ reads = <<>>

----------------------------------------------------------------------------
(* C6 *)

\* the version constant of the structure that hook type i is handed
VersionOf(i) ==
    CASE i = HOOK_AHRS_UPDATE -> AHRS_state_version
      [] i = HOOK_GYRO_SAMPLE -> gyro_sample_version
      [] i = HOOK_ACCEL_SAMPLE -> accel_sample_version

\* C6: every structure handed to an entry point by the AHRS-update, gyro-sample
\* and accel-sample dispatch has the structure_version of its own type.
C6_SnapshotVersion ==
    op.hook \in {HOOK_AHRS_UPDATE, HOOK_GYRO_SAMPLE, HOOK_ACCEL_SAMPLE} =>
        \A k \in 1 .. Len(calls) : calls[k].arg.structure_version = VersionOf(op.hook)

C6_Witness ==
    /\ op.hook = HOOK_GYRO_SAMPLE
    /\ Len(calls) = 2
    /\ calls[2].arg.structure_version = gyro_sample_version

----------------------------------------------------------------------------
(* C7 *)

\* the float a is the centimetre value cm divided by 100
IsCentimetresOver100(a, cm) == a.num * 100 = cm * a.den

\* a location block of the snapshot against what the source reports: have is the
\* accessor's result, flag the block's flag, loc the source's location
BlockMatches(have, loc, flag, block) ==
    IF have
    THEN /\ flag
         /\ block.latitude = loc.lat
         /\ block.longitude = loc.lng
         /\ IsCentimetresOver100(block.altitude, loc.alt)
    ELSE /\ ~flag
         /\ block.latitude = 0
         /\ block.longitude = 0
         /\ block.altitude.num = 0

\* C7: in every AHRS snapshot handed to an entry point the origin block is
\* all zero with its flag false when get_origin reports no origin, and holds
\* the source's latitude, longitude and altitude/100 with its flag true when
\* it does; the position block is decided in the same way by get_position
\* alone, whatever get_origin returned.
C7_OriginAndPosition ==
    op.hook = HOOK_AHRS_UPDATE =>
        \A k \in 1 .. Len(calls) :
            LET state == calls[k].arg
                ahrs == op.ahrs
            IN /\ BlockMatches(ahrs.have_origin, ahrs.origin,
                               state.origin.initialised, state.origin)
               /\ BlockMatches(ahrs.have_position, ahrs.position,
                               state.position.available, state.position)

C7_Witness ==
    /\ op.hook = HOOK_AHRS_UPDATE
    /\ calls # <<>>
    /\ ~op.ahrs.have_origin
    /\ op.ahrs.have_position
    /\ calls[1].arg.position.available
    /\ calls[1].arg.position.altitude # F(0)
    /\ ~calls[1].arg.origin.initialised

----------------------------------------------------------------------------
(* C8 *)

\* init on the module directory has returned
ReturnedFromModuleDir ==
    pc = "idle" /\ inits # <<>> /\ Last(inits) = ModuleDir

PathsOf(l) == [k \in 1 .. Len(l) |-> PathOf(ModuleDir, l[k])]

\* an entry ending in ".so" whose path the last init could build
BuiltModuleEntry(name) == EndsWithDotSo(name) /\ name \notin RangeOf(skipped)

\* C8 as claimed: the paths init passes to module_scan are exactly, and in
\* directory order, the paths of the entries whose name ends in ".so".
C8_ScansExactlyDotSo ==
    ReturnedFromModuleDir => scanned = PathsOf(SelectSeq(fs.listing, EndsWithDotSo))

\* C8, amended: the paths init passes to module_scan are exactly, and in
\* directory order, the paths of the entries whose name ends in ".so" and
\* whose path asprintf could build; an entry that does not end in ".so" is
\* never passed and never counted as a failed path.
C8_ScansBuiltDotSo ==
    ReturnedFromModuleDir =>
        /\ scanned = PathsOf(SelectSeq(fs.listing, BuiltModuleEntry))
        /\ \A k \in 1 .. Len(skipped) : EndsWithDotSo(skipped[k])

C8_Witness ==
    /\ ReturnedFromModuleDir
    /\ fs.listing = <<Name_a_so, Name_b_txt, Name_c_SO>>
    /\ scanned = <<PathOf(ModuleDir, Name_a_so)>>
    /\ skipped = <<>>

----------------------------------------------------------------------------
(* C9 *)

\* the steps of a running init
InitStep ==
    \/ \E asprintf_ok \in BOOLEAN, budget \in 0 .. NUM_HOOKS :
            InitReaddir(asprintf_ok, budget)
    \/ InitClose

\* a turn of init's loop on an entry ending in ".so" that fails: its path
\* cannot be built, or the module at its path cannot be loaded
FailingEntryStep ==
    /\ pc = "readdir"
    /\ dir # <<>>
    /\ EndsWithDotSo(Head(dir))
    /\ \/ skipped' = Append(skipped, Head(dir))
       \/ ScanStep /\ ~FileAt(ScannedPath).loadable

\* every entry ending in ".so" was passed to module_scan or failed to get a path
AllModuleEntriesHandled ==
    \A k \in 1 .. Len(fs.listing) :
        EndsWithDotSo(fs.listing[k]) =>
            \/ PathOf(ModuleDir, fs.listing[k]) \in RangeOf(scanned)
            \/ fs.listing[k] \in RangeOf(skipped)

\* C9 as claimed, its last part: init always returns, so a call of init that
\* has not returned can always take its next step.
C9_InitAlwaysReturns == pc # "idle" => ENABLED InitStep

\* C9, amended: an entry that fails changes no list and no node and leaves
\* init in its loop on the entries that follow; init's loop can always take
\* its next step, and when init returns every entry ending in ".so" has been
\* passed to module_scan or has failed to get a path.  Init returns unless the
\* allocation of a registration node fails, which panics.
C9_FailuresDoNotStopDiscovery ==
    /\ [][FailingEntryStep =>
            /\ hooks' = hooks
            /\ heap' = heap
            /\ registered' = registered
            /\ pc' = "readdir"
            /\ dir' = Tail(dir)]_vars
    /\ [](pc = "readdir" => ENABLED InitStep)
    /\ [](ReturnedFromModuleDir => AllModuleEntriesHandled)

C9_Witness ==
    /\ ReturnedFromModuleDir
    /\ Len(scanned) = 2
    /\ ~FileAt(scanned[1]).loadable
    /\ FileAt(scanned[2]).loadable
    /\ Len(heap) = NUM_HOOKS
    /\ Len(stdout) = 1

----------------------------------------------------------------------------
(* C10 *)

\* the number of paths the running or last init could not load
UnloadableScanned ==
    Cardinality({k \in 1 .. Len(scanned) : ~FileAt(scanned[k]).loadable})

\* C10 as claimed: every discovery-time error is logged, so during and after
\* the first init the diagnostics are as many as the errors met: the
\* directory that cannot be opened, the paths that cannot be built and the
\* modules that cannot be loaded.
C10_EveryErrorLogged ==
    (Len(inits) = 1 /\ pc # "panic") =>
        Len(stdout) = (IF inits[1] = MissingDir THEN 1 ELSE 0)
                        + Len(skipped) + UnloadableScanned

\* C10, amended: of the three kinds of discovery-time error only the module
\* that cannot be loaded is logged, with its path, before it is skipped; a
\* directory that cannot be opened and a path that cannot be built are
\* skipped without any diagnostic.
C10_OnlyLoadFailureLogged ==
    [][pc' # "panic" =>
        stdout' = IF ScanStep /\ ~FileAt(ScannedPath).loadable
                  THEN Append(stdout, [fmt |-> "dlopen(%s) -> %s",
                                       arg |-> ScannedPath])
                  ELSE stdout]_vars

C10_Witness ==
    /\ Len(inits) = 2
    /\ inits[1] = MissingDir
    /\ pc = "idle"
    /\ skipped # <<>>
    /\ Len(scanned) = 1
    /\ Len(stdout) = 1

----------------------------------------------------------------------------
(* C11 *)

\* C11 as claimed: in every AHRS snapshot handed to an entry point gyro_rate[i]
\* is get_gyro()[i] and accel_ef[i] is get_accel_ef()[i], for each of the three
\* components.
C11_GyroAndAccelCopied ==
    op.hook = HOOK_AHRS_UPDATE =>
        \A k \in 1 .. Len(calls) : \A c \in 1 .. 3 :
            /\ calls[k].arg.gyro_rate[c] = op.ahrs.gyro[c]
            /\ calls[k].arg.accel_ef[c] = op.ahrs.accel_ef[c]

----------------------------------------------------------------------------
(* C12 *)

\* C12: every registration of every list refers to a module that is loaded;
\* the scan of a loadable module leaves its handle open exactly when it
\* matched a hook type, and no step ever closes a handle of a module that
\* exports a hook symbol.
C12_RegisteredModulesStayLoaded ==
    /\ [](\A k \in 1 .. Len(heap) : refcount[heap[k].symbol.module] > 0)
    /\ [][(ScanStep /\ pc' # "panic" /\ FileAt(ScannedPath).loadable) =>
            refcount'[ScannedPath] =
                IF Recognised(ScannedPath) = {}
                THEN refcount[ScannedPath]
                ELSE refcount[ScannedPath] + 1]_vars
    /\ [][\A q \in AllPaths :
            Recognised(q) # {} => refcount'[q] >= refcount[q]]_vars

C12_Witness ==
    /\ pc = "idle"
    /\ Len(inits) = 2
    /\ Len(scanned) = 2
    /\ ExportsNoHook(scanned[1])
    /\ refcount[scanned[1]] = 0
    /\ refcount[scanned[2]] = 2
    /\ Len(heap) = 2
    /\ Dispatched

----------------------------------------------------------------------------
(* C13 *)

\* s is the end of l
IsSuffix(s, l) ==
    Len(s) <= Len(l) /\ SubSeq(l, Len(l) - Len(s) + 1, Len(l)) = s

\* a step of one of the five dispatch operations
DispatchStep == pc = "idle" /\ inits' = inits

\* C13: no dispatch operation changes a list or a node, and every step leaves
\* each node as it was and each list as the end of what the list becomes: no
\* registration is removed, reordered or modified.
C13_PrependOnly ==
    [][/\ DispatchStep => (hooks' = hooks /\ heap' = heap)
       /\ Len(heap') >= Len(heap)
       /\ SubSeq(heap', 1, Len(heap)) = heap
       /\ \A i \in HookIds :
            IsSuffix(HookList(heap, hooks[i]), HookList(heap', hooks'[i]))]_vars

C13_Witness ==
    /\ Len(inits) = 2
    /\ pc = "idle"
    /\ Len(HookList(heap, hooks[HOOK_SETUP_START])) = 4
    /\ Len(HookList(heap, hooks[HOOK_ACCEL_SAMPLE])) = 2
    /\ op.hook = HOOK_ACCEL_SAMPLE
    /\ Len(calls) = 2

----------------------------------------------------------------------------
(* C14 *)

\* C14: the status of every AHRS snapshot handed to an entry point is
\* Initialising when the source is not initialised, whatever its health, and
\* healthy() is then not read; it is Healthy when the source is initialised
\* and healthy and Unhealthy when it is initialised and not healthy.
C14_Status ==
    (op.hook = HOOK_AHRS_UPDATE /\ calls # <<>>) =>
        /\ \A k \in 1 .. Len(calls) :
              calls[k].arg.status =
                  CASE ~op.ahrs.initialised -> AHRS_STATUS_INITIALISING
                    [] op.ahrs.initialised /\ op.ahrs.healthy -> AHRS_STATUS_HEALTHY
                    [] op.ahrs.initialised /\ ~op.ahrs.healthy -> AHRS_STATUS_UNHEALTHY
        /\ "initialised" \in RangeOf(reads)
        /\ "healthy" \in RangeOf(reads) <=> op.ahrs.initialised

C14_Witness ==
    /\ op.hook = HOOK_AHRS_UPDATE
    /\ calls # <<>>
    /\ ~op.ahrs.initialised
    /\ op.ahrs.healthy
    /\ calls[1].arg.status = AHRS_STATUS_INITIALISING
    /\ "healthy" \notin RangeOf(reads)

----------------------------------------------------------------------------
(* C15 *)

\* C15: the relative position of every AHRS snapshot handed to an entry point
\* is the source's when the source reports one and (0,0,0) when it reports
\* none; in particular a dispatch whose source reports none hands out
\* (0,0,0) when the dispatch before it handed out a position that is not zero.
C15_RelativePosition ==
    /\ [](op.hook = HOOK_AHRS_UPDATE =>
            \A k \in 1 .. Len(calls) :
                calls[k].arg.relative_position =
                    IF op.ahrs.have_relative_position
                    THEN op.ahrs.relative_position_NED
                    ELSE <<F(0), F(0), F(0)>>)
    /\ [][(/\ op.hook = HOOK_AHRS_UPDATE
           /\ calls # <<>>
           /\ calls[1].arg.relative_position # <<F(0), F(0), F(0)>>
           /\ DispatchStep
           /\ op'.hook = HOOK_AHRS_UPDATE
           /\ ~op'.ahrs.have_relative_position)
          => (/\ calls' # <<>>
              /\ \A k \in 1 .. Len(calls') :
                    calls'[k].arg.relative_position = <<F(0), F(0), F(0)>>)]_vars

C15_Witness ==
    /\ op.hook = HOOK_AHRS_UPDATE
    /\ Len(calls) = 2
    /\ ~op.ahrs.have_relative_position
    /\ calls[2].arg.relative_position = <<F(0), F(0), F(0)>>
    /\ calls[2].arg.gyro_rate # <<F(0), F(0), F(0)>>

----------------------------------------------------------------------------
(* C16 *)

\* the addresses that at most `fuel` steps of the walk from h meet
RECURSIVE Walk(_, _, _)
Walk(hp, h, fuel) ==
    IF h = NULL \/ fuel = 0 THEN <<>>
    ELSE <<h>> \o Walk(hp, hp[h].next, fuel - 1)

\* the walk of list i, cut off after one step more than there are nodes
WalkOf(i) == Walk(heap, hooks[i], Len(heap) + 1)

\* C16: every list is finite and acyclic: each head and each next pointer is
\* NULL or the address of a node allocated before, so the walk of a list meets
\* no node twice and ends within as many steps as there are nodes; a dispatch
\* makes exactly as many calls as the walk of its list has nodes.
C16_DispatchTerminates ==
    /\ \A k \in 1 .. Len(heap) : heap[k].next \in 0 .. (k - 1)
    /\ \A i \in HookIds :
        /\ hooks[i] \in 0 .. Len(heap)
        /\ Len(WalkOf(i)) <= Len(heap)
        /\ \A a, b \in 1 .. Len(WalkOf(i)) : WalkOf(i)[a] = WalkOf(i)[b] => a = b
    /\ Dispatched => Len(calls) = Len(WalkOf(op.hook))

C16_Witness ==
    /\ op.hook = HOOK_GYRO_SAMPLE
    /\ Len(WalkOf(HOOK_GYRO_SAMPLE)) = 3
    /\ Len(calls) = 3
    /\ Len(heap) > 3

----------------------------------------------------------------------------
(* C17 *)

\* the number of positions of the sequence s that hold x
Count(s, x) == Cardinality({k \in 1 .. Len(s) : s[k] = x})

\* the paths that module_scan loaded and whose module exports the hook name n
LoadedExporting(n) ==
    {k \in 1 .. Len(scanned) : FileAt(scanned[k]).loadable /\ n \in FileAt(scanned[k]).exports}

\* C17: a dispatch of hook type X calls only entry points registered under
\* X's name, each as often as it was registered under X, in particular every
\* registration once and no entry point of another hook type; after one
\* discovery that returned, that is one call for every module the discovery
\* loaded that exports X.
C17_ExactlyOncePerRegistration ==
    Dispatched =>
        /\ \A k \in 1 .. Len(calls) : calls[k].fn.name = hook_names[op.hook]
        /\ \A i \in HookIds : \A k \in 1 .. Len(registered[i]) :
              Count(CalledSymbols, registered[i][k]) =
                  IF i = op.hook THEN Count(registered[i], registered[i][k]) ELSE 0
        /\ Len(calls) = Len(registered[op.hook])
        /\ (inits = <<ModuleDir>> /\ pc = "idle") =>
              /\ Len(calls) = Cardinality(LoadedExporting(hook_names[op.hook]))
              /\ \A k \in LoadedExporting(hook_names[op.hook]) :
                    Count(CalledSymbols, dlsym(scanned[k], hook_names[op.hook])) = 1

C17_Witness ==
    /\ inits = <<ModuleDir>>
    /\ pc = "idle"
    /\ op.hook = HOOK_SETUP_COMPLETE
    /\ Len(calls) = 1
    /\ Len(scanned) = 2
    /\ Len(registered[HOOK_SETUP_START]) = 2

----------------------------------------------------------------------------
(* C18 *)

\* the node h has its next and its symbol written
Complete(h) == ~Unwritten(h, "next") /\ ~Unwritten(h, "symbol")

\* C18: when one module_scan and one dispatch operation interleave statement
\* by statement, every node that is the head of a list or that the dispatch
\* loop holds has its next and its symbol written, the loop never reads a
\* field that is not written, and once both have returned the entry points
\* called are, in order, the end of the list as the scan left it.
C18_PublishAfterComplete ==
    /\ \A i \in HookIds : hooks[i] # NULL => Complete(hooks[i])
    /\ frame.disp.pc # "fault"
    /\ (frame.disp.pc \in {"loop", "step"} /\ frame.disp.h # NULL) =>
            Complete(frame.disp.h)
    /\ \A k \in 1 .. Len(calls) : calls[k].fn # NullSymbol
    /\ (frame.scan.pc = "returned" /\ frame.disp.pc = "returned" /\ Dispatched) =>
            IsSuffix(CalledSymbols, HookList(heap, hooks[op.hook]))

C18_Witness ==
    /\ frame.scan.pc = "returned"
    /\ frame.disp.pc = "returned"
    /\ op.hook = HOOK_AHRS_UPDATE
    /\ Len(calls) = 1
    /\ Len(HookList(heap, hooks[HOOK_AHRS_UPDATE])) = 2
    /\ Len(scanned) = 2
    /\ scanned[1] # scanned[2]

----------------------------------------------------------------------------
(* C19 *)

\* the listed modules that load and export the symbol of hook type i
ExportersOf(i) ==
    {q \in ListedModulePaths : FileAt(q).loadable /\ hook_names[i] \in FileAt(q).exports}

\* init has run twice on the module directory and has returned
RanTwice == inits = <<ModuleDir, ModuleDir>> /\ pc = "idle"

\* C19 as stated: after init has run twice on the same directory every list
\* holds two registrations for every loadable module that exports its symbol,
\* and a dispatch calls each such entry point twice.
C19_EveryListDoubles ==
    RanTwice =>
        \A i \in HookIds :
            /\ Len(HookList(heap, hooks[i])) = 2 * Cardinality(ExportersOf(i))
            /\ op.hook = i =>
                  \A q \in ExportersOf(i) :
                      Count(CalledSymbols, dlsym(q, hook_names[i])) = 2

\* C19, amended: an init call leaves the registry as it finds it, and a list
\* holds the entry point of a module as many times as module_scan has loaded
\* the module, which a dispatch calls as many times; when neither of two init
\* calls on the directory skipped a module, each list is what one call
\* registers, twice over, and a dispatch calls each entry point twice.
C19_NoDedupNoReset ==
    /\ [][Len(inits') > Len(inits) =>
            (hooks' = hooks /\ heap' = heap /\ refcount' = refcount)]_vars
    /\ [](pc # "panic" =>
            \A i \in HookIds : \A q \in ExportersOf(i) :
                /\ Count(HookList(heap, hooks[i]), dlsym(q, hook_names[i])) = refcount[q]
                /\ op.hook = i =>
                      Count(CalledSymbols, dlsym(q, hook_names[i])) = refcount[q])
    /\ []((RanTwice /\ \A i \in HookIds : \A q \in ExportersOf(i) : refcount[q] = 2) =>
            \A i \in HookIds :
                LET l == HookList(heap, hooks[i])
                    n == Cardinality(ExportersOf(i))
                IN /\ Len(l) = 2 * n
                   /\ SubSeq(l, 1, n) = SubSeq(l, n + 1, 2 * n)
                   /\ op.hook = i =>
                         \A q \in ExportersOf(i) :
                             Count(CalledSymbols, dlsym(q, hook_names[i])) = 2)

C19_Witness ==
    /\ RanTwice
    /\ Len(scanned) = 2
    /\ refcount[scanned[1]] = 2
    /\ refcount[scanned[2]] = 2
    /\ op.hook = HOOK_SETUP_START
    /\ Len(calls) = 4
    /\ calls[1].fn = calls[3].fn
    /\ calls[2].fn = calls[4].fn
    /\ calls[1].fn # calls[2].fn

====
